---- MODULE Spec2Model ----
(***************************************************************************)
(* Model of the ai-hedge-fund service: the historical backtest simulator   *)
(* (backtesting/engine.py) and the multi-agent orchestrator                *)
(* (workflow/trading_graph.py).                                            *)
(*                                                                         *)
(* Python floats are modelled as exact rationals <<n, d>> (d > 0, lowest   *)
(* terms); Python's None / a missing dict key as the empty tuple <<>> and  *)
(* a present value v as <<v>>.                                             *)
(***************************************************************************)
EXTENDS Integers, Sequences, FiniteSets, TLC

(***************************************************************************)
(* Exact rational arithmetic.                                              *)
(***************************************************************************)
Abs(x) == IF x < 0 THEN -x ELSE x

RECURSIVE GCD(_, _)
GCD(a, b) == IF b = 0 THEN a ELSE GCD(b, a % b)

Norm(n, d) ==
    LET g == GCD(Abs(n), Abs(d))
        s == IF d < 0 THEN -1 ELSE 1
    IN  <<(s * n) \div g, (s * d) \div g>>

R(n) == <<n, 1>>
\* common factors are cancelled before multiplying, to keep the integers small
RAdd(x, y) ==
    LET g == GCD(x[2], y[2])
    IN  Norm(x[1] * (y[2] \div g) + y[1] * (x[2] \div g), (x[2] \div g) * y[2])
RNeg(x) == <<-x[1], x[2]>>
RSub(x, y) == RAdd(x, RNeg(y))
RMul(x, y) ==
    LET g1 == GCD(Abs(x[1]), y[2])
        g2 == GCD(Abs(y[1]), x[2])
    IN  Norm((x[1] \div g1) * (y[1] \div g2), (x[2] \div g2) * (y[2] \div g1))
RDiv(x, y) == RMul(x, Norm(y[2], y[1]))
RLe(x, y) ==
    LET g == GCD(x[2], y[2])
    IN  x[1] * (y[2] \div g) <= y[1] * (x[2] \div g)
RLt(x, y) ==
    LET g == GCD(x[2], y[2])
    IN  x[1] * (y[2] \div g) < y[1] * (x[2] \div g)
RGe(x, y) == RLe(y, x)
RGt(x, y) == RLt(y, x)
RIsZero(x) == x[1] = 0

(***************************************************************************)
(* Bounds of the model.                                                    *)
(***************************************************************************)
MaxCandles == 3
MaxSignals == 2

(***************************************************************************)
(* BacktestEngine.__init__ defaults.                                       *)
(***************************************************************************)
DefaultInitialBalance == 10000
DefaultPositionSizePct == 10
DefaultStopLossPct == 5
DefaultTakeProfitPct == 15
MinConfidence == 60
DefaultConfidence == 50
SignalWindowSeconds == 3600

DefaultEngine ==
    [initial_balance |-> DefaultInitialBalance,
     position_size_pct |-> DefaultPositionSizePct,
     stop_loss_pct |-> DefaultStopLossPct,
     take_profit_pct |-> DefaultTakeProfitPct]

\* engines built with other constructor arguments: all-in with both
\* thresholds at 0, an empty account, a position size of 0
Engines ==
    {DefaultEngine,
     [initial_balance |-> DefaultInitialBalance, position_size_pct |-> 100,
      stop_loss_pct |-> 0, take_profit_pct |-> 0],
     [initial_balance |-> 0, position_size_pct |-> 50,
      stop_loss_pct |-> DefaultStopLossPct, take_profit_pct |-> DefaultTakeProfitPct],
     [initial_balance |-> DefaultInitialBalance, position_size_pct |-> 0,
      stop_loss_pct |-> DefaultStopLossPct, take_profit_pct |-> DefaultTakeProfitPct]}

TokenId == "solana"

(***************************************************************************)
(* Inputs: candle closes, candle timestamps (seconds), signal timeline.    *)
(***************************************************************************)
CandleInterval == 30 * 60
Prices == {95, 100, 115}

SeqsUpTo(S, n) == UNION {[1..k -> S] : k \in 0..n}

\* fetch_historical_data: [] on any failure, otherwise one candle per OHLC
\* row, in the provider's chronological order.
CandleSeries ==
    {[i \in 1..Len(c) |-> [timestamp |-> i * CandleInterval, close |-> c[i]]] :
        c \in SeqsUpTo(Prices, MaxCandles)}

\* closes of a feed that quotes a worthless token at 0
PricesAnyClose == {0, 100}

CandleSeriesAnyClose ==
    {[i \in 1..Len(c) |-> [timestamp |-> i * CandleInterval, close |-> c[i]]] :
        c \in SeqsUpTo(PricesAnyClose, MaxCandles)}

SignalPool ==
    {[timestamp |-> <<CandleInterval>>, action |-> "BUY", confidence |-> <<80>>],
     [timestamp |-> <<3 * CandleInterval>>, action |-> "Bullish", confidence |-> <<60>>],
     [timestamp |-> <<CandleInterval>>, action |-> "sell", confidence |-> <<90>>],
     [timestamp |-> <<2 * CandleInterval>>, action |-> "bearish", confidence |-> <<90>>],
     [timestamp |-> <<2 * CandleInterval>>, action |-> "buy", confidence |-> <<59>>],
     [timestamp |-> <<2 * CandleInterval>>, action |-> "bullish", confidence |-> <<>>],
     [timestamp |-> <<>>, action |-> "buy", confidence |-> <<90>>]}

SignalTimelines == SeqsUpTo(SignalPool, MaxSignals)

\* str.lower() on the action strings of the pool
Lower(s) ==
    CASE s = "BUY" -> "buy"
      [] s = "Bullish" -> "bullish"
      [] OTHER -> s

\* timelines of the signals of the pool that can open a position
EntrySignalTimelines ==
    SeqsUpTo({s \in SignalPool :
                 /\ s.timestamp # <<>>
                 /\ s.confidence # <<>>
                 /\ s.confidence[1] >= MinConfidence
                 /\ Lower(s.action) \in {"buy", "bullish"}}, MaxSignals)

VARIABLES
    bt_pc,          \* position of run_backtest: start, exit, scan, final, done, raised
    self,           \* the engine's constructor fields
    signals,        \* the signal timeline passed to run_backtest
    candles,        \* fetched candles
    idx,            \* index of the candle being processed
    balance,        \* rational
    position,       \* <<>> or <<Trade>>
    trades,         \* closed trades, in closing order
    equity_curve,
    peak_balance,
    result,         \* <<>> or <<BacktestResult>>
    opened          \* history: every Trade created, as created, in creation order

btVars == <<bt_pc, self, signals, candles, idx, balance, position, trades,
            equity_curve, peak_balance, result, opened>>

VARIABLES
    or_pc,            \* position of analyze / quick_signal: start, gather, risk, portfolio, done, raised
    entry,            \* the method called: "analyze" or "quick_signal"
    mode,             \* TradingGraph.mode
    market_data,      \* the fetched snapshot
    stage,            \* the roster being gathered: personas, crypto, quick
    tasks,            \* results of asyncio.gather, by roster index
    calls,            \* history: invocations of each strategy
    outcome,          \* history: how each strategy's invocation ended
    persona_signals,
    crypto_signals,
    all_signals,
    risk_context,     \* <<>> or <<mapping handed to the risk assessor>>
    risk_assessment,  \* <<>> or <<AgentSignal>>
    final_decision,   \* <<>> or <<Decision>>
    synthesize_args,  \* history: <<>> or <<arguments of the synthesize_signals call>>
    context,          \* the caller's context: <<>> (None) or <<mapping>>
    strategy_context, \* history: the context argument of each gather, in dispatch order
    bundle            \* <<>> or <<returned dict>>

orVars == <<or_pc, entry, mode, market_data, stage, tasks, calls, outcome,
            persona_signals, crypto_signals, all_signals, risk_context,
            risk_assessment, final_decision, synthesize_args, context,
            strategy_context, bundle>>

VARIABLES
    fn_pc,            \* "input" or "output"
    fn_signals,       \* the signal list aggregated
    fn_sentiment,     \* _calculate_sentiment(fn_signals)
    fn_confidence     \* the average confidence of fn_signals

fnVars == <<fn_pc, fn_signals, fn_sentiment, fn_confidence>>

vars == <<btVars, orVars, fnVars>>

(***************************************************************************)
(* run_backtest                                                            *)
(***************************************************************************)
NewTrade(price, size, timestamp, confidence) ==
    [token |-> TokenId, action |-> "buy", price |-> price, size |-> size,
     timestamp |-> timestamp, signal_confidence |-> confidence,
     pnl |-> R(0), pnl_pct |-> R(0), closed |-> FALSE,
     close_price |-> <<>>, close_timestamp |-> <<>>]

\* ((current - entry) / entry) * 100 for a long, mirrored for a short;
\* the caller checks pos.price # 0 (ZeroDivisionError otherwise)
UnrealizedPnlPct(pos, current_price) ==
    IF pos.action = "buy"
    THEN RMul(RDiv(R(current_price - pos.price), R(pos.price)), R(100))
    ELSE RMul(RDiv(R(pos.price - current_price), R(pos.price)), R(100))

\* mutant: pnl is size * pnl_pct, the division by 100 forgotten
CloseTradePnlNotScaled(pos, candle, pnl_pct) ==
    [pos EXCEPT !.closed = TRUE,
                !.close_price = <<candle.close>>,
                !.close_timestamp = <<candle.timestamp>>,
                !.pnl_pct = pnl_pct,
                !.pnl = RMul(pos.size, pnl_pct)]

\* mutant: closing also overwrites the entry price with the closing price
CloseTradeOverwritesEntry(pos, candle, pnl_pct) ==
    [pos EXCEPT !.closed = TRUE,
                !.price = candle.close,
                !.close_price = <<candle.close>>,
                !.close_timestamp = <<candle.timestamp>>,
                !.pnl_pct = pnl_pct,
                !.pnl = RMul(pos.size, RDiv(pnl_pct, R(100)))]

\* lines 158-162 and 221-225: the fields written when a trade is closed
CloseTrade(pos, candle, pnl_pct) ==
    [pos EXCEPT !.closed = TRUE,
                !.close_price = <<candle.close>>,
                !.close_timestamp = <<candle.timestamp>>,
                !.pnl_pct = pnl_pct,
                !.pnl = RMul(pos.size, RDiv(pnl_pct, R(100)))]

\* mutant: the degenerate result reports a balance of 0
EmptyResultZeroBalance ==
    [token |-> TokenId,
     initial_balance |-> R(self.initial_balance),
     final_balance |-> R(0),
     total_pnl |-> R(0), total_pnl_pct |-> R(0),
     total_trades |-> 0, winning_trades |-> 0, losing_trades |-> 0,
     win_rate |-> R(0), max_drawdown |-> R(0),
     trades |-> <<>>, equity_curve |-> <<>>]

\* lines 117-132: the result returned when no candles were obtained
EmptyResult ==
    [token |-> TokenId,
     initial_balance |-> R(self.initial_balance),
     final_balance |-> R(self.initial_balance),
     total_pnl |-> R(0), total_pnl_pct |-> R(0),
     total_trades |-> 0, winning_trades |-> 0, losing_trades |-> 0,
     win_rate |-> R(0), max_drawdown |-> R(0),
     trades |-> <<>>, equity_curve |-> <<>>]

\* lines 114-139: fetch the candles (one series of the provider's possible
\* answers); no candles gives the degenerate result
FetchFrom(series) ==
    /\ UNCHANGED <<orVars, fnVars>>
    /\ bt_pc = "start"
    /\ \E c \in series :
        /\ candles' = c
        /\ IF c = <<>>
           THEN /\ result' = <<EmptyResult>>
                /\ bt_pc' = "done"
                /\ UNCHANGED <<idx, balance, peak_balance>>
           ELSE /\ result' = <<>>
                /\ bt_pc' = "exit"
                /\ idx' = 1
                /\ balance' = R(self.initial_balance)
                /\ peak_balance' = R(self.initial_balance)
    /\ position' = <<>>
    /\ trades' = <<>>
    /\ equity_curve' = <<>>
    /\ UNCHANGED <<self, signals, opened>>

\* mutant: a strict comparison misses the exact take-profit threshold
TakeProfitHitStrict(pnl_pct) == RGt(pnl_pct, R(self.take_profit_pct))

\* mutant: a strict comparison misses the exact threshold
StopLossHitStrict(pnl_pct) == RLt(pnl_pct, RNeg(R(self.stop_loss_pct)))

StopLossHit(pnl_pct) == RLe(pnl_pct, RNeg(R(self.stop_loss_pct)))
TakeProfitHit(pnl_pct) == RGe(pnl_pct, R(self.take_profit_pct))

\* lines 143-173: stop-loss / take-profit check of the open position
CheckExit ==
    /\ UNCHANGED <<orVars, fnVars>>
    /\ bt_pc = "exit"
    /\ LET candle == candles[idx]
           current_price == candle.close
       IN  IF position = <<>>
           THEN /\ bt_pc' = "scan"
                /\ UNCHANGED <<balance, position, trades>>
           ELSE LET pos == position[1] IN
                IF pos.price = 0
                THEN /\ bt_pc' = "raised"
                     /\ UNCHANGED <<balance, position, trades>>
                ELSE LET unrealized_pnl_pct == UnrealizedPnlPct(pos, current_price)
                         closed == CloseTrade(pos, candle, unrealized_pnl_pct)
                     IN  /\ bt_pc' = "scan"
                         /\ IF StopLossHit(unrealized_pnl_pct)
                            THEN /\ balance' = RAdd(balance, RAdd(closed.size, closed.pnl))
                                 /\ trades' = Append(trades, closed)
                                 /\ position' = <<>>
                            ELSE IF TakeProfitHit(unrealized_pnl_pct)
                            THEN /\ balance' = RAdd(balance, RAdd(closed.size, closed.pnl))
                                 /\ trades' = Append(trades, closed)
                                 /\ position' = <<>>
                            ELSE UNCHANGED <<balance, position, trades>>
    /\ UNCHANGED <<self, signals, candles, idx, equity_curve, peak_balance, result, opened>>

\* mutant: a signal is matched to the bar of its own timestamp only
InWindowSameBar(signal, candle) ==
    /\ signal.timestamp # <<>>
    /\ signal.timestamp[1] = candle.timestamp

\* line 178: signal_time and abs((signal_time - candle_ts).total_seconds()) < 3600
InWindow(signal, candle) ==
    /\ signal.timestamp # <<>>
    /\ Abs(signal.timestamp[1] - candle.timestamp) < SignalWindowSeconds

\* line 180: signal.get("confidence", 50)
SignalConfidence(signal) ==
    IF signal.confidence = <<>> THEN DefaultConfidence ELSE signal.confidence[1]

\* mutant: confidence > 60 instead of >= 60
TradeableStrict(signal) ==
    /\ SignalConfidence(signal) > MinConfidence
    /\ Lower(signal.action) \in {"buy", "bullish"}

\* line 183, without the "not position" conjunct
Tradeable(signal) ==
    /\ SignalConfidence(signal) >= MinConfidence
    /\ Lower(signal.action) \in {"buy", "bullish"}

\* mutant: the "not position" conjunct forgotten
MayOpenNoGuard(signal, pos) == Tradeable(signal)

\* line 183: the whole condition
MayOpen(signal, pos) ==
    /\ Tradeable(signal)
    /\ pos = <<>>

\* mutant: a bar that closed a trade opens no new position
RECURSIVE ScanFromNoReentry(_, _, _)
ScanFromNoReentry(i, st, candle) ==
    IF i > Len(signals) THEN st
    ELSE LET signal == signals[i]
             exited == /\ trades # <<>>
                       /\ trades[Len(trades)].close_timestamp = <<candle.timestamp>>
         IN  IF InWindow(signal, candle) /\ MayOpen(signal, st.position) /\ ~exited
             THEN LET size == RMul(st.balance, RDiv(R(self.position_size_pct), R(100)))
                      t == NewTrade(candle.close, size, candle.timestamp,
                                    SignalConfidence(signal))
                  IN  ScanFromNoReentry(i + 1,
                                        [balance |-> RSub(st.balance, size),
                                         position |-> <<t>>,
                                         opened |-> Append(st.opened, t)],
                                        candle)
             ELSE ScanFromNoReentry(i + 1, st, candle)

\* mutant: the position is opened without debiting the balance
RECURSIVE ScanFromNoDebit(_, _, _)
ScanFromNoDebit(i, st, candle) ==
    IF i > Len(signals) THEN st
    ELSE LET signal == signals[i] IN
         IF InWindow(signal, candle) /\ MayOpen(signal, st.position)
         THEN LET size == RMul(st.balance, RDiv(R(self.position_size_pct), R(100)))
                  t == NewTrade(candle.close, size, candle.timestamp,
                                SignalConfidence(signal))
              IN  ScanFromNoDebit(i + 1,
                                  [balance |-> st.balance,
                                   position |-> <<t>>,
                                   opened |-> Append(st.opened, t)],
                                  candle)
         ELSE ScanFromNoDebit(i + 1, st, candle)

\* mutant: the entry block sits outside the loop over the timeline, so a
\* flat bar opens a position whether or not a signal asks for one
ScanFromOutsideLoop(i, st, candle) ==
    IF st.position # <<>> THEN st
    ELSE LET size == RMul(st.balance, RDiv(R(self.position_size_pct), R(100)))
             t == NewTrade(candle.close, size, candle.timestamp, DefaultConfidence)
         IN  [balance |-> RSub(st.balance, size),
              position |-> <<t>>,
              opened |-> Append(st.opened, t)]

\* lines 176-193: the loop over the signal timeline, from signal i on;
\* st = [balance, position, opened]
RECURSIVE ScanFrom(_, _, _)
ScanFrom(i, st, candle) ==
    IF i > Len(signals) THEN st
    ELSE LET signal == signals[i] IN
         IF InWindow(signal, candle) /\ MayOpen(signal, st.position)
         THEN LET size == RMul(st.balance, RDiv(R(self.position_size_pct), R(100)))
                  t == NewTrade(candle.close, size, candle.timestamp,
                                SignalConfidence(signal))
              IN  ScanFrom(i + 1,
                           [balance |-> RSub(st.balance, size),
                            position |-> <<t>>,
                            opened |-> Append(st.opened, t)],
                           candle)
         ELSE ScanFrom(i + 1, st, candle)

\* mutant: the open position is not marked to market
CurrentEquityBalanceOnly(bal, pos, current_price) == bal

\* lines 196-202
CurrentEquity(bal, pos, current_price) ==
    IF pos = <<>> THEN bal
    ELSE RAdd(bal, RMul(pos[1].size,
                        RAdd(R(1), RDiv(UnrealizedPnlPct(pos[1], current_price), R(100)))))

\* lines 175-212: entry scan, equity point, running peak; then the next candle
ScanSignals ==
    /\ UNCHANGED <<orVars, fnVars>>
    /\ bt_pc = "scan"
    /\ LET candle == candles[idx]
           st == ScanFrom(1, [balance |-> balance, position |-> position,
                              opened |-> opened], candle)
       IN  /\ balance' = st.balance
           /\ position' = st.position
           /\ opened' = st.opened
           /\ IF st.position # <<>> /\ st.position[1].price = 0
              THEN /\ bt_pc' = "raised"
                   /\ UNCHANGED <<equity_curve, peak_balance, idx>>
              ELSE LET current_equity == CurrentEquity(st.balance, st.position, candle.close)
                   IN  /\ equity_curve' = Append(equity_curve,
                                [timestamp |-> candle.timestamp,
                                 equity |-> current_equity,
                                 price |-> candle.close])
                       /\ peak_balance' = IF RGt(current_equity, peak_balance)
                                          THEN current_equity ELSE peak_balance
                       /\ IF idx < Len(candles)
                          THEN idx' = idx + 1 /\ bt_pc' = "exit"
                          ELSE idx' = idx /\ bt_pc' = "final"
    /\ UNCHANGED <<self, signals, candles, trades, result>>

\* mutant: the peak stays at the initial balance
RECURSIVE MaxDrawdownFixedPeak(_, _, _)
MaxDrawdownFixedPeak(i, peak, max_dd) ==
    IF i > Len(equity_curve) THEN max_dd
    ELSE LET e == equity_curve[i].equity
             dd == RMul(RDiv(RSub(peak, e), peak), R(100))
         IN  MaxDrawdownFixedPeak(i + 1, peak, IF RGt(dd, max_dd) THEN dd ELSE max_dd)

\* lines 236-243
RECURSIVE MaxDrawdownFrom(_, _, _)
MaxDrawdownFrom(i, peak, max_dd) ==
    IF i > Len(equity_curve) THEN max_dd
    ELSE LET e == equity_curve[i].equity
             pk == IF RGt(e, peak) THEN e ELSE peak
             dd == RMul(RDiv(RSub(pk, e), pk), R(100))
         IN  MaxDrawdownFrom(i + 1, pk, IF RGt(dd, max_dd) THEN dd ELSE max_dd)

\* mutant: the share of winners as a fraction, not as a percentage
WinRateFraction(n_winning, n_trades) ==
    IF n_trades > 0 THEN RDiv(R(n_winning), R(n_trades)) ELSE R(0)

\* line 233: len(winning) / len(trades) * 100 if trades else 0
WinRate(n_winning, n_trades) ==
    IF n_trades > 0 THEN RMul(RDiv(R(n_winning), R(n_trades)), R(100)) ELSE R(0)

\* mutant: the remaining position is closed at the first candle, not the last
ForceCloseAtFirstCandle(pos) ==
    CloseTrade(pos, candles[1], UnrealizedPnlPct(pos, candles[1].close))

\* mutant: the remaining position is appended without being closed
ForceCloseUnclosed(pos) == pos

\* lines 214-228: the position left open after the last candle
ForceClose(pos) ==
    CloseTrade(pos, candles[Len(candles)],
               UnrealizedPnlPct(pos, candles[Len(candles)].close))

\* lines 214-274: force-close, metrics, result
Finalize ==
    /\ UNCHANGED <<orVars, fnVars>>
    /\ bt_pc = "final"
    /\ IF position # <<>> /\ position[1].price = 0
       THEN /\ bt_pc' = "raised"
            /\ UNCHANGED <<balance, position, trades, result>>
       ELSE LET closed == IF position = <<>> THEN <<>> ELSE <<ForceClose(position[1])>>
                bal == IF position = <<>> THEN balance
                       ELSE RAdd(balance, RAdd(closed[1].size, closed[1].pnl))
                all == trades \o closed
                winning == {i \in 1..Len(all) : RGt(all[i].pnl, R(0))}
                losing == {i \in 1..Len(all) : RLe(all[i].pnl, R(0))}
                faulty == \/ self.initial_balance = 0
                          \/ \E i \in 1..(Len(equity_curve) - 1) :
                                RIsZero(equity_curve[i].equity)
            IN  /\ balance' = bal
                /\ position' = closed
                /\ trades' = all
                /\ IF faulty
                   THEN bt_pc' = "raised" /\ result' = <<>>
                   ELSE /\ bt_pc' = "done"
                        /\ result' = <<[token |-> TokenId,
                              initial_balance |-> R(self.initial_balance),
                              final_balance |-> bal,
                              total_pnl |-> RSub(bal, R(self.initial_balance)),
                              total_pnl_pct |->
                                  RMul(RDiv(RSub(bal, R(self.initial_balance)),
                                            R(self.initial_balance)), R(100)),
                              total_trades |-> Len(all),
                              winning_trades |-> Cardinality(winning),
                              losing_trades |-> Cardinality(losing),
                              win_rate |-> WinRate(Cardinality(winning), Len(all)),
                              max_drawdown |->
                                  MaxDrawdownFrom(1, R(self.initial_balance), R(0)),
                              trades |-> all,
                              equity_curve |-> equity_curve]>>
    /\ UNCHANGED <<self, signals, candles, idx, equity_curve, peak_balance, opened>>

\* the provider quotes positive closes
FetchHistoricalData == FetchFrom(CandleSeries)

\* the provider quotes closes that may be 0
FetchHistoricalDataAnyClose == FetchFrom(CandleSeriesAnyClose)

BtInit ==
    /\ bt_pc = "start"
    /\ self = DefaultEngine
    /\ signals \in SignalTimelines
    /\ candles = <<>>
    /\ idx = 0
    /\ balance = R(0)
    /\ position = <<>>
    /\ trades = <<>>
    /\ equity_curve = <<>>
    /\ peak_balance = R(0)
    /\ result = <<>>
    /\ opened = <<>>

\* run_backtest called on an engine of any construction
BtInitEngines ==
    /\ bt_pc = "start"
    /\ self \in Engines
    /\ signals \in EntrySignalTimelines
    /\ candles = <<>>
    /\ idx = 0
    /\ balance = R(0)
    /\ position = <<>>
    /\ trades = <<>>
    /\ equity_curve = <<>>
    /\ peak_balance = R(0)
    /\ result = <<>>
    /\ opened = <<>>

BtNext ==
    \/ FetchHistoricalData
    \/ CheckExit
    \/ ScanSignals
    \/ Finalize

\* the same run over the feed with closes of 0
BtNextAnyClose ==
    \/ FetchHistoricalDataAnyClose
    \/ CheckExit
    \/ ScanSignals
    \/ Finalize

(***************************************************************************)
(* TradingGraph: rosters                                                   *)
(***************************************************************************)
Modes == {"full", "fast", "degen"}

\* __post_init__, lines 65-75
PersonaAgents(m) ==
    <<"WarrenBuffett", "MichaelBurry">>
    \o (IF m = "full" THEN <<"CharlieMunger", "CathieWood", "BillAckman">> ELSE <<>>)

\* mutant: the pump specialist appended in every mode but degen
CryptoAgentsPumpInFast(m) ==
    IF m = "degen"
    THEN <<"Degen", "PumpTrader", "SolanaSpecialist">>
    ELSE <<"Degen", "SolanaSpecialist", "WhaleWatcher", "OnChainAnalyst", "PumpTrader">>

\* __post_init__, lines 78-93
CryptoAgents(m) ==
    IF m = "degen"
    THEN <<"Degen", "PumpTrader", "SolanaSpecialist">>
    ELSE <<"Degen", "SolanaSpecialist", "WhaleWatcher", "OnChainAnalyst">>
         \o (IF m = "full" THEN <<"PumpTrader">> ELSE <<>>)

\* __post_init__, lines 96-99
ManagementAgents == [risk |-> "RiskManager", portfolio |-> "PortfolioManager"]

\* mutant: quick_signal reuses the head of the graph's crypto roster
QuickAgentsFromMode == SubSeq(CryptoAgents(mode), 1, 2) \o <<"RiskManager">>

\* quick_signal, lines 186-190
QuickAgents == <<"Degen", "OnChainAnalyst", "RiskManager">>

AgentNames ==
    {"WarrenBuffett", "MichaelBurry", "CharlieMunger", "CathieWood", "BillAckman",
     "Degen", "SolanaSpecialist", "WhaleWatcher", "PumpTrader", "OnChainAnalyst",
     "RiskManager", "PortfolioManager"}

(***************************************************************************)
(* Snapshots returned by get_market_data (data/market_data.py): a field is *)
(* missing, null (None) or a number.                                       *)
(***************************************************************************)
Missing == [tag |-> "missing"]
Null == [tag |-> "None"]
Num(n) == [tag |-> "num", val |-> n]

Snapshots ==
    {\* every source failed: {token, chain} only
     [price |-> Missing, market_cap |-> Missing, volume_24h |-> Missing],
     \* CoinGecko answered without a usd quote
     [price |-> Null, market_cap |-> Null, volume_24h |-> Null],
     \* DexScreener pair without priceUsd: float(pair.get("priceUsd", 0))
     [price |-> Num(0), market_cap |-> Missing, volume_24h |-> Num(0)],
     \* DexScreener only
     [price |-> Num(2), market_cap |-> Missing, volume_24h |-> Num(500)],
     \* CoinGecko
     [price |-> Num(2), market_cap |-> Num(1000), volume_24h |-> Num(500)]}

\* bool(market_data.get("price"))
Truthy(v) == v.tag = "num" /\ v.val # 0

\* f"{x:,.0f}" succeeds on numbers only ('N/A' and None raise)
Formats(v) == v.tag = "num"

(***************************************************************************)
(* A strategy invocation: one completion-service call, then parsing.  It   *)
(* returns an AgentSignal or fails.                                        *)
(***************************************************************************)
Responses ==
    {[action |-> "bullish", confidence |-> 80],
     [action |-> "bearish", confidence |-> 40]}

Pending == [kind |-> "pending"]
Failed == [kind |-> "error"]
Signal(agent, r) ==
    [kind |-> "signal", agent_name |-> agent, action |-> r.action,
     confidence |-> r.confidence]

StrategyOutcomes(agent) == {Failed} \cup {Signal(agent, r) : r \in Responses}

\* RiskManagerAgent.analyze: the prompt formats market_cap and volume_24h
\* with ",.0f" before the completion call
RiskManagerOutcomes(md) ==
    IF Formats(md.market_cap) /\ Formats(md.volume_24h)
    THEN StrategyOutcomes("RiskManager")
    ELSE {Failed}

AnalyzeOutcomes(agent, md) ==
    IF agent = "RiskManager" THEN RiskManagerOutcomes(md) ELSE StrategyOutcomes(agent)

\* PortfolioManagerAgent.synthesize_signals: a Decision, or a failure
Decisions ==
    {[action |-> "buy", conviction |-> "high", confidence |-> 75,
      execution_plan |-> <<[entry_price |-> 2, position_size_pct |-> 5, stop_loss |-> 1]>>],
     [action |-> "sell", conviction |-> "medium", confidence |-> 65,
      execution_plan |-> <<[entry_price |-> 2, position_size_pct |-> 5, stop_loss |-> 3]>>],
     [action |-> "hold", conviction |-> "low", confidence |-> 50,
      execution_plan |-> <<>>],
     [action |-> "avoid", conviction |-> "high", confidence |-> 70,
      execution_plan |-> <<>>]}

SynthesizeOutcomes == {Failed} \cup {[kind |-> "decision", decision |-> d] : d \in Decisions}

(***************************************************************************)
(* TradingGraph helpers                                                    *)
(***************************************************************************)
RECURSIVE SumConfidence(_)
SumConfidence(sigs) ==
    IF sigs = <<>> THEN 0 ELSE sigs[1].confidence + SumConfidence(Tail(sigs))

\* mutant: ">=" in the first comparison
CalculateSentimentAtLeast(sigs) ==
    IF sigs = <<>> THEN "neutral"
    ELSE LET bullish == Cardinality({i \in 1..Len(sigs) : sigs[i].action = "bullish"})
             bearish == Cardinality({i \in 1..Len(sigs) : sigs[i].action = "bearish"})
         IN  IF bullish >= bearish * 2 THEN "very_bullish"
             ELSE IF bullish > bearish THEN "bullish"
             ELSE IF bearish > bullish * 2 THEN "very_bearish"
             ELSE IF bearish > bullish THEN "bearish"
             ELSE "neutral"

\* _calculate_sentiment, lines 232-248
CalculateSentiment(sigs) ==
    IF sigs = <<>> THEN "neutral"
    ELSE LET bullish == Cardinality({i \in 1..Len(sigs) : sigs[i].action = "bullish"})
             bearish == Cardinality({i \in 1..Len(sigs) : sigs[i].action = "bearish"})
         IN  IF bullish > bearish * 2 THEN "very_bullish"
             ELSE IF bullish > bearish THEN "bullish"
             ELSE IF bearish > bullish * 2 THEN "very_bearish"
             ELSE IF bearish > bullish THEN "bearish"
             ELSE "neutral"

\* mutant: the sum is not divided by the number of signals
AvgConfidenceSum(sigs) == R(SumConfidence(sigs))

\* lines 145 and 195: sum(s.confidence for s in sigs) / len(sigs) if sigs else 0
AvgConfidence(sigs) ==
    IF sigs # <<>> THEN RDiv(R(SumConfidence(sigs)), R(Len(sigs))) ELSE R(0)

\* _signal_to_dict, lines 250-259
SignalToDict(sig) ==
    [agent |-> sig.agent_name, action |-> sig.action, confidence |-> sig.confidence]

SignalsToDicts(sigs) == [i \in 1..Len(sigs) |-> SignalToDict(sigs[i])]

\* mutant: the execution-plan section is written whether or not the decision
\* carries a plan (its fields fall back to 'N/A')
GenerateSummaryAlwaysPlan(sigs, decision) ==
    [bullish |-> Cardinality({i \in 1..Len(sigs) : sigs[i].action = "bullish"}),
     bearish |-> Cardinality({i \in 1..Len(sigs) : sigs[i].action = "bearish"}),
     action |-> decision.action,
     conviction |-> decision.conviction,
     plan |-> IF decision.execution_plan # <<>> THEN decision.execution_plan
              ELSE <<[entry_price |-> 0, position_size_pct |-> 0, stop_loss |-> 0]>>]

\* _generate_summary, lines 261-282
GenerateSummary(sigs, decision) ==
    [bullish |-> Cardinality({i \in 1..Len(sigs) : sigs[i].action = "bullish"}),
     bearish |-> Cardinality({i \in 1..Len(sigs) : sigs[i].action = "bearish"}),
     action |-> decision.action,
     conviction |-> decision.conviction,
     plan |-> decision.execution_plan]

\* _generate_quick_take, lines 284-302
GenerateQuickTake(sentiment, confidence) ==
    [take |-> CASE sentiment = "very_bullish" -> "Strong buy signal"
                [] sentiment = "bullish" -> "Bullish lean"
                [] sentiment = "neutral" -> "Mixed signals"
                [] sentiment = "bearish" -> "Bearish lean"
                [] sentiment = "very_bearish" -> "Strong sell/avoid signal"
                [] OTHER -> "Unclear",
     confidence |-> confidence]

\* mutant: the two entries are written only where the caller's mapping does
\* not hold them yet (dict.setdefault)
RiskContextSetDefault(ctx, sentiment, avg_confidence) ==
    LET base == IF ctx = <<>> THEN <<>> ELSE ctx[1]
    IN  [k \in DOMAIN base \cup {"aggregate_sentiment", "avg_confidence"} |->
            IF k \in DOMAIN base THEN base[k]
            ELSE IF k = "aggregate_sentiment" THEN sentiment ELSE avg_confidence]

\* lines 142-146: {**(context or {}), "aggregate_sentiment": ..., "avg_confidence": ...}
RiskContext(ctx, sentiment, avg_confidence) ==
    LET base == IF ctx = <<>> THEN <<>> ELSE ctx[1]
    IN  [k \in DOMAIN base \cup {"aggregate_sentiment", "avg_confidence"} |->
            IF k = "aggregate_sentiment" THEN sentiment
            ELSE IF k = "avg_confidence" THEN avg_confidence
            ELSE base[k]]

\* mutant: collection stops at the first failed task
RECURSIVE CollectUntilError(_)
CollectUntilError(results) ==
    IF results = <<>> \/ results[1].kind # "signal" THEN <<>>
    ELSE <<results[1]>> \o CollectUntilError(Tail(results))

\* _run_agents_parallel, lines 222-230: the AgentSignals among the results,
\* in the order of the results
CollectSignals(results) == SelectSeq(results, LAMBDA r : r.kind = "signal")

\* _run_agents_parallel, lines 215-220: one task per agent of the roster
Dispatch(agents) ==
    /\ tasks' = [i \in 1..Len(agents) |-> Pending]
    /\ calls' = [a \in AgentNames |->
                    calls[a] + Cardinality({i \in 1..Len(agents) : agents[i] = a})]

Roster ==
    CASE stage = "personas" -> PersonaAgents(mode)
      [] stage = "crypto" -> CryptoAgents(mode)
      [] stage = "quick" -> QuickAgents
      [] OTHER -> <<>>

\* mutant: a missing or null price is "no data", a price of 0 is data
PriceIsNotNone(v) == v.tag = "num"

\* mutant: "no data" is absence of the price field ("price" not in market_data)
PriceFieldPresent(v) == v.tag # "missing"

\* lines 116 and 182: not market_data.get("price")
HasPrice(v) == Truthy(v)

\* analyze lines 113-129, quick_signal lines 180-192: fetch the snapshot,
\* return the error result or dispatch the first roster
FetchMarketData ==
    /\ UNCHANGED <<btVars, fnVars>>
    /\ UNCHANGED context
    /\ or_pc = "start"
    /\ \E md \in Snapshots :
        /\ market_data' = <<md>>
        /\ IF ~HasPrice(md.price)
           THEN /\ or_pc' = "done"
                /\ bundle' = IF entry = "analyze"
                             THEN <<[error |-> "Could not fetch market data",
                                     token |-> TokenId, chain |-> "solana"]>>
                             ELSE <<[error |-> "No data", token |-> TokenId]>>
                /\ UNCHANGED <<stage, tasks, calls, strategy_context>>
           ELSE /\ or_pc' = "gather"
                /\ stage' = IF entry = "analyze" THEN "personas" ELSE "quick"
                /\ Dispatch(IF entry = "analyze" THEN PersonaAgents(mode) ELSE QuickAgents)
                /\ strategy_context' =
                      Append(strategy_context, IF entry = "analyze" THEN context ELSE <<>>)
                /\ UNCHANGED bundle
    /\ UNCHANGED <<entry, mode, outcome, persona_signals, crypto_signals,
                   all_signals, risk_context, risk_assessment, final_decision,
                   synthesize_args>>

\* one task of the running gather finishes or fails (any order)
TaskFinish(i) ==
    /\ UNCHANGED <<btVars, fnVars>>
    /\ UNCHANGED <<context, strategy_context>>
    /\ or_pc = "gather"
    /\ i \in 1..Len(tasks)
    /\ tasks[i] = Pending
    /\ \E o \in AnalyzeOutcomes(Roster[i], market_data[1]) :
        /\ tasks' = [tasks EXCEPT ![i] = o]
        /\ outcome' = [outcome EXCEPT ![Roster[i]] = o]
    /\ UNCHANGED <<or_pc, entry, mode, market_data, stage, calls, persona_signals,
                   crypto_signals, all_signals, risk_context, risk_assessment,
                   final_decision, synthesize_args, bundle>>

\* mutant: the join returns as soon as one task has finished
AnyFinished == \E i \in 1..Len(tasks) : tasks[i] # Pending

\* line 220: gather returns when every task has finished or failed
AllFinished == \A i \in 1..Len(tasks) : tasks[i] # Pending

\* lines 220-230 and 124-132: the persona join returns, the crypto roster is dispatched
JoinPersonas ==
    /\ UNCHANGED <<btVars, fnVars>>
    /\ UNCHANGED context
    /\ or_pc = "gather" /\ stage = "personas"
    /\ AllFinished
    /\ persona_signals' = CollectSignals(tasks)
    /\ stage' = "crypto"
    /\ Dispatch(CryptoAgents(mode))
    /\ strategy_context' = Append(strategy_context, context)
    /\ UNCHANGED <<or_pc, entry, mode, market_data, outcome, crypto_signals,
                   all_signals, risk_context, risk_assessment, final_decision,
                   synthesize_args, bundle>>

\* lines 220-230 and 132-146: the crypto join returns; sentiment and average
\* confidence go into the risk assessor's context
JoinCrypto ==
    /\ UNCHANGED <<btVars, fnVars>>
    /\ UNCHANGED <<context, strategy_context>>
    /\ or_pc = "gather" /\ stage = "crypto"
    /\ AllFinished
    /\ LET sigs == CollectSignals(tasks)
           all == persona_signals \o sigs
       IN  /\ crypto_signals' = sigs
           /\ all_signals' = all
           /\ risk_context' = <<RiskContext(context, CalculateSentiment(all),
                                             AvgConfidence(all))>>
    /\ or_pc' = "risk"
    /\ tasks' = <<>>
    /\ calls' = [calls EXCEPT ![ManagementAgents.risk] = @ + 1]
    /\ UNCHANGED <<entry, mode, market_data, stage, outcome, persona_signals,
                   risk_assessment, final_decision, synthesize_args, bundle>>

\* lines 148-159: the risk assessor returns (or its failure leaves analyze);
\* the decision synthesizer is called
RiskAssessment ==
    /\ UNCHANGED <<btVars, fnVars>>
    /\ UNCHANGED <<context, strategy_context>>
    /\ or_pc = "risk"
    /\ \E o \in RiskManagerOutcomes(market_data[1]) :
        /\ outcome' = [outcome EXCEPT ![ManagementAgents.risk] = o]
        /\ IF o.kind = "signal"
           THEN /\ risk_assessment' = <<o>>
                /\ or_pc' = "portfolio"
                /\ calls' = [calls EXCEPT ![ManagementAgents.portfolio] = @ + 1]
                /\ synthesize_args' = <<[token |-> TokenId,
                                         market_data |-> market_data[1],
                                         signals |-> all_signals,
                                         risk_assessment |-> o,
                                         context |-> context]>>
           ELSE /\ or_pc' = "raised"
                /\ UNCHANGED <<risk_assessment, calls, synthesize_args>>
    /\ UNCHANGED <<entry, mode, market_data, stage, tasks, persona_signals,
                   crypto_signals, all_signals, risk_context, final_decision, bundle>>

\* lines 153-169: the decision synthesizer returns (or its failure leaves
\* analyze); the bundle is composed
SynthesizeSignals ==
    /\ UNCHANGED <<btVars, fnVars>>
    /\ UNCHANGED <<context, strategy_context>>
    /\ or_pc = "portfolio"
    /\ \E o \in SynthesizeOutcomes :
        /\ outcome' = [outcome EXCEPT ![ManagementAgents.portfolio] = o]
        /\ IF o.kind = "decision"
           THEN /\ final_decision' = <<o.decision>>
                /\ or_pc' = "done"
                /\ bundle' = <<[token |-> TokenId, chain |-> "solana",
                                market_data |-> market_data[1],
                                agent_signals |-> SignalsToDicts(all_signals),
                                risk_assessment |-> SignalToDict(risk_assessment[1]),
                                final_decision |-> o.decision,
                                summary |-> GenerateSummary(all_signals, o.decision)]>>
           ELSE /\ or_pc' = "raised"
                /\ UNCHANGED <<final_decision, bundle>>
    /\ UNCHANGED <<entry, mode, market_data, stage, tasks, calls, persona_signals,
                   crypto_signals, all_signals, risk_context, risk_assessment,
                   synthesize_args>>

\* quick_signal lines 192-205: the join returns; sentiment, average
\* confidence and the result
JoinQuick ==
    /\ UNCHANGED <<btVars, fnVars>>
    /\ UNCHANGED <<context, strategy_context>>
    /\ or_pc = "gather" /\ stage = "quick"
    /\ AllFinished
    /\ LET sigs == CollectSignals(tasks)
           sentiment == CalculateSentiment(sigs)
           avg_confidence == AvgConfidence(sigs)
       IN  /\ all_signals' = sigs
           /\ bundle' = <<[token |-> TokenId,
                           price |-> market_data[1].price,
                           sentiment |-> sentiment,
                           confidence |-> avg_confidence,
                           signals |-> SignalsToDicts(sigs),
                           quick_take |-> GenerateQuickTake(sentiment, avg_confidence)]>>
    /\ or_pc' = "done"
    /\ tasks' = <<>>
    /\ UNCHANGED <<entry, mode, market_data, stage, calls, outcome, persona_signals,
                   crypto_signals, risk_context, risk_assessment, final_decision,
                   synthesize_args>>

OrIdle ==
    /\ or_pc = "idle"
    /\ entry = "analyze"
    /\ mode = "full"
    /\ market_data = <<>>
    /\ stage = "none"
    /\ tasks = <<>>
    /\ calls = [a \in AgentNames |-> 0]
    /\ outcome = [a \in AgentNames |-> Pending]
    /\ persona_signals = <<>>
    /\ crypto_signals = <<>>
    /\ all_signals = <<>>
    /\ risk_context = <<>>
    /\ risk_assessment = <<>>
    /\ final_decision = <<>>
    /\ synthesize_args = <<>>
    /\ context = <<>>
    /\ strategy_context = <<>>
    /\ bundle = <<>>

\* a TradingGraph of any mode, one of its two pipelines called
OrInit ==
    /\ or_pc = "start"
    /\ entry \in {"analyze", "quick_signal"}
    /\ mode \in Modes
    /\ market_data = <<>>
    /\ stage = "none"
    /\ tasks = <<>>
    /\ calls = [a \in AgentNames |-> 0]
    /\ outcome = [a \in AgentNames |-> Pending]
    /\ persona_signals = <<>>
    /\ crypto_signals = <<>>
    /\ all_signals = <<>>
    /\ risk_context = <<>>
    /\ risk_assessment = <<>>
    /\ final_decision = <<>>
    /\ synthesize_args = <<>>
    /\ context = <<>>
    /\ strategy_context = <<>>
    /\ bundle = <<>>

\* context mappings a caller passes to analyze (routes.py: the request's
\* optional context): none, a note, a note with a stale aggregate_sentiment
Contexts ==
    {<<>>,
     <<[note |-> "watchlist"]>>,
     <<[note |-> "watchlist", aggregate_sentiment |-> "very_bearish"]>>}

\* a graph of mode fast or degen; analyze called with any of these contexts
OrInitContext ==
    /\ or_pc = "start"
    /\ entry \in {"analyze", "quick_signal"}
    /\ mode \in {"fast", "degen"}
    /\ context \in Contexts
    /\ (entry = "quick_signal" => context = <<>>)   \* quick_signal takes no context
    /\ market_data = <<>>
    /\ stage = "none"
    /\ tasks = <<>>
    /\ calls = [a \in AgentNames |-> 0]
    /\ outcome = [a \in AgentNames |-> Pending]
    /\ persona_signals = <<>>
    /\ crypto_signals = <<>>
    /\ all_signals = <<>>
    /\ risk_context = <<>>
    /\ risk_assessment = <<>>
    /\ final_decision = <<>>
    /\ synthesize_args = <<>>
    /\ strategy_context = <<>>
    /\ bundle = <<>>

BtIdle ==
    /\ bt_pc = "idle"
    /\ self = DefaultEngine
    /\ signals = <<>>
    /\ candles = <<>>
    /\ idx = 0
    /\ balance = R(0)
    /\ position = <<>>
    /\ trades = <<>>
    /\ equity_curve = <<>>
    /\ peak_balance = R(0)
    /\ result = <<>>
    /\ opened = <<>>

OrNext ==
    \/ FetchMarketData
    \/ \E i \in DOMAIN tasks : TaskFinish(i)
    \/ JoinPersonas
    \/ JoinCrypto
    \/ RiskAssessment
    \/ SynthesizeSignals
    \/ JoinQuick

(***************************************************************************)
(* The aggregation functions on their own, over bounded signal lists       *)
(***************************************************************************)
MaxListLen == 4

SignalActions == {"bullish", "bearish", "neutral"}
SignalConfidences == {0, 50, 100}

SignalLists ==
    SeqsUpTo({[agent_name |-> "agent", action |-> a, confidence |-> c] :
                 a \in SignalActions, c \in SignalConfidences}, MaxListLen)

FnIdle ==
    /\ fn_pc = "idle"
    /\ fn_signals = <<>>
    /\ fn_sentiment = ""
    /\ fn_confidence = R(0)

FnInit ==
    /\ fn_pc = "input"
    /\ fn_signals \in SignalLists
    /\ fn_sentiment = ""
    /\ fn_confidence = R(0)

\* lines 144-145 (analyze) and 194-195 (quick_signal)
Aggregate ==
    /\ UNCHANGED <<btVars, orVars>>
    /\ fn_pc = "input"
    /\ fn_pc' = "output"
    /\ fn_sentiment' = CalculateSentiment(fn_signals)
    /\ fn_confidence' = AvgConfidence(fn_signals)
    /\ UNCHANGED fn_signals

FnNext == Aggregate

InitOrchestrator == OrInit /\ BtIdle /\ FnIdle
InitAggregate == FnInit /\ BtIdle /\ OrIdle
InitBacktest == BtInit /\ OrIdle /\ FnIdle

InitOrchestratorContext == OrInitContext /\ BtIdle /\ FnIdle
SpecOrchestratorContext == InitOrchestratorContext /\ [][OrNext]_vars

SpecOrchestrator == InitOrchestrator /\ [][OrNext]_vars
SpecAggregate == InitAggregate /\ [][FnNext]_vars
SpecBacktest == InitBacktest /\ [][BtNext]_vars
SpecBacktestAnyClose == InitBacktest /\ [][BtNextAnyClose]_vars

InitBacktestEngines == BtInitEngines /\ OrIdle /\ FnIdle
SpecBacktestEngines == InitBacktestEngines /\ [][BtNext]_vars

(***************************************************************************)
(* Properties of run_backtest                                              *)
(***************************************************************************)
EntryFields(t) ==
    <<t.token, t.action, t.price, t.size, t.timestamp, t.signal_confidence>>

PositionOpen == position # <<>> /\ ~position[1].closed

\* C1: at every point of a run the number of Trades created and not yet
\* closed is 0 or 1, it is 1 exactly when a position is held, and the held
\* position is the Trade created last: no Trade is created (and none is
\* dropped) while another one is open.
C1_AtMostOneOpenTrade ==
    /\ Len(opened) - Len(trades) \in {0, 1}
    /\ (Len(opened) - Len(trades) = 1) <=> PositionOpen
    /\ PositionOpen => position[1] = opened[Len(opened)]
    /\ \A i \in 1..Len(trades) : trades[i].closed

\* a position is held after an earlier trade was closed, and the timeline
\* holds two tradeable signals in the window of the bar that opened it
C1_Witness ==
    /\ PositionOpen
    /\ Len(trades) >= 1
    /\ Cardinality({i \in 1..Len(signals) :
            /\ Tradeable(signals[i])
            /\ signals[i].timestamp # <<>>
            /\ Abs(signals[i].timestamp[1] - position[1].timestamp)
                 < SignalWindowSeconds}) >= 2

\* C2: when run_backtest has returned, result.trades holds every Trade ever
\* created, once each and in creation order, each closed with close price
\* and close timestamp set; total_trades is the number of Trades created;
\* and a position still held after the last candle was closed at the last
\* candle's close and timestamp.
C2_EveryOpenedTradeClosed ==
    bt_pc = "done" =>
        LET r == result[1]
            last == candles[Len(candles)]
        IN  /\ r.total_trades = Len(opened)
            /\ Len(r.trades) = Len(opened)
            /\ \A i \in 1..Len(r.trades) :
                /\ EntryFields(r.trades[i]) = EntryFields(opened[i])
                /\ r.trades[i].closed
                /\ r.trades[i].close_price # <<>>
                /\ r.trades[i].close_timestamp # <<>>
            /\ position # <<>> =>
                /\ Len(r.trades) >= 1
                /\ r.trades[Len(r.trades)] = position[1]
                /\ position[1].close_price = <<last.close>>
                /\ position[1].close_timestamp = <<last.timestamp>>

\* a run that returned after one stop-loss/take-profit exit and one forced close
C2_Witness ==
    /\ bt_pc = "done"
    /\ position # <<>>
    /\ Len(result[1].trades) = 2
    /\ result[1].trades[1].close_timestamp # result[1].trades[2].close_timestamp

\* C3: at a bar reached with a long position whose entry price exceeds the
\* bar's close by at least stop_loss_pct percent, the exit check closes the
\* trade at that close with pnl_pct <= -stop_loss_pct and
\* pnl = size * pnl_pct / 100, credits the balance with size + pnl, and
\* leaves no position.
C3_StopLossExit ==
    [][(/\ bt_pc = "exit"
        /\ position # <<>>
        /\ position[1].action = "buy"
        /\ position[1].price > 0
        /\ (position[1].price - candles[idx].close) * 100
              >= self.stop_loss_pct * position[1].price)
       => /\ Len(trades') = Len(trades) + 1
          /\ position' = <<>>
          /\ LET t == trades'[Len(trades')]
             IN  /\ EntryFields(t) = EntryFields(position[1])
                 /\ t.closed
                 /\ t.close_price = <<candles[idx].close>>
                 /\ t.close_timestamp = <<candles[idx].timestamp>>
                 /\ candles[idx].timestamp > t.timestamp
                 /\ RLe(t.pnl_pct, R(0 - self.stop_loss_pct))
                 /\ t.pnl = RDiv(RMul(t.size, t.pnl_pct), R(100))
                 /\ balance' = RAdd(RAdd(balance, t.size), t.pnl)]_vars

\* the exit check has just closed a trade exactly at the threshold (-5 %)
C3_Witness ==
    /\ bt_pc = "scan"
    /\ position = <<>>
    /\ Len(trades) >= 1
    /\ trades[Len(trades)].close_timestamp = <<candles[idx].timestamp>>
    /\ trades[Len(trades)].pnl_pct = R(0 - self.stop_loss_pct)

\* the claim's qualifying signal: a timestamp less than one hour from the
\* bar's, a confidence of at least 60, an action that is buy or bullish in
\* any letter case
C4_Qualifies(signal, candle) ==
    /\ signal.timestamp # <<>>
    /\ signal.timestamp[1] - candle.timestamp < 3600
    /\ candle.timestamp - signal.timestamp[1] < 3600
    /\ signal.confidence # <<>>
    /\ signal.confidence[1] >= 60
    /\ signal.action \in {"buy", "Buy", "BUY", "bullish", "Bullish", "BULLISH"}

\* C4: the entry scan of a bar that finds no position open opens one if and
\* only if the timeline holds a qualifying signal (timestamp less than one
\* hour from the bar's, confidence >= 60, action buy or bullish in any
\* case); the position is a long at the bar's close and timestamp, sized
\* position_size_pct percent of the balance, and the balance is debited by
\* that size; without a qualifying signal (sell and bearish signals never
\* qualify) nothing is opened and the balance is unchanged.
C4_EntryRule ==
    [][(bt_pc = "scan" /\ position = <<>>)
       => LET candle == candles[idx]
              q == \E i \in 1..Len(signals) : C4_Qualifies(signals[i], candle)
              size == RDiv(RMul(balance, R(self.position_size_pct)), R(100))
          IN  /\ (position' # <<>>) <=> q
              /\ q => /\ position'[1].action = "buy"
                      /\ position'[1].price = candle.close
                      /\ position'[1].timestamp = candle.timestamp
                      /\ position'[1].size = size
                      /\ ~position'[1].closed
                      /\ balance' = RSub(balance, size)
                      /\ opened' = Append(opened, position'[1])
                      /\ \E i \in 1..Len(signals) :
                            /\ C4_Qualifies(signals[i], candle)
                            /\ position'[1].signal_confidence = signals[i].confidence[1]
              /\ ~q => balance' = balance /\ opened' = opened
              /\ (\A i \in 1..Len(signals) :
                     Lower(signals[i].action) \in {"sell", "bearish"})
                    => opened' = opened]_vars

\* a position opened by the mixed-case, confidence-60 signal, its size
\* (10 % of 10000) already debited
C4_Witness ==
    /\ PositionOpen
    /\ position[1].signal_confidence = MinConfidence
    /\ position[1].size = R(1000)
    /\ balance = R(9000)
    /\ \E i \in 1..Len(signals) : Lower(signals[i].action) \in {"sell", "bearish"}

(***************************************************************************)
(* Properties of the orchestrator                                          *)
(***************************************************************************)
PosIn(roster, a) == CHOOSE i \in DOMAIN roster : roster[i] = a

Succeeded(a) == outcome[a].kind = "signal"

\* sigs is exactly the signals of the strategies of roster whose invocation
\* succeeded, each as its invocation produced it, in roster order
SurvivorsInRosterOrder(sigs, roster) ==
    /\ Len(sigs) = Cardinality({i \in DOMAIN roster : Succeeded(roster[i])})
    /\ \A k \in DOMAIN sigs :
        /\ \E i \in DOMAIN roster : roster[i] = sigs[k].agent_name
        /\ Succeeded(sigs[k].agent_name)
        /\ sigs[k] = outcome[sigs[k].agent_name]
    /\ \A k, l \in DOMAIN sigs :
        k < l => PosIn(roster, sigs[k].agent_name) < PosIn(roster, sigs[l].agent_name)

InvokedOnce(roster) == \A i \in DOMAIN roster : calls[roster[i]] = 1

\* C5: no strategy is ever invoked more than once; when a join has
\* returned, every strategy of its roster was invoked exactly once and the
\* returned list is exactly the signals of the strategies that succeeded, as
\* produced, in roster order; in analyze the signal list is the persona
\* survivors followed by the crypto survivors.  The tasks finish in every
\* possible order.
C5_FailureTolerantJoin ==
    /\ \A a \in AgentNames : calls[a] <= 1
    /\ stage = "crypto" =>
        /\ InvokedOnce(PersonaAgents(mode))
        /\ SurvivorsInRosterOrder(persona_signals, PersonaAgents(mode))
    /\ (stage = "crypto" /\ or_pc # "gather") =>
        /\ InvokedOnce(CryptoAgents(mode))
        /\ SurvivorsInRosterOrder(crypto_signals, CryptoAgents(mode))
        /\ all_signals = persona_signals \o crypto_signals
    /\ (stage = "quick" /\ or_pc = "done") =>
        /\ InvokedOnce(QuickAgents)
        /\ SurvivorsInRosterOrder(all_signals, QuickAgents)

\* both joins of analyze have returned; in each roster a strategy failed
\* ahead of one that succeeded
C5_Witness ==
    /\ stage = "crypto" /\ or_pc = "risk"
    /\ outcome["WarrenBuffett"].kind = "error"
    /\ outcome["MichaelBurry"].kind = "signal"
    /\ outcome["Degen"].kind = "error"
    /\ outcome["SolanaSpecialist"].kind = "signal"
    /\ Len(all_signals) >= 2
    /\ all_signals[1].agent_name = "MichaelBurry"

EveryRosterStrategyFailed ==
    /\ \A i \in DOMAIN PersonaAgents(mode) : outcome[PersonaAgents(mode)[i]].kind = "error"
    /\ \A i \in DOMAIN CryptoAgents(mode) : outcome[CryptoAgents(mode)[i]].kind = "error"

\* C6: once every persona and crypto strategy has failed (price present),
\* analyze aggregates the empty list (neutral, 0), still runs the risk
\* assessor and the decision synthesizer on it, does not end in a fault, and
\* returns a bundle with agent_signals = [] and a final_decision.
C6_AllFailedStillReturns ==
    (/\ entry = "analyze"
     /\ stage = "crypto" /\ or_pc # "gather"
     /\ EveryRosterStrategyFailed)
    => /\ all_signals = <<>>
       /\ risk_context = <<[aggregate_sentiment |-> "neutral", avg_confidence |-> R(0)]>>
       /\ calls[ManagementAgents.risk] = 1
       /\ or_pc # "raised"
       /\ or_pc = "done" =>
            /\ calls[ManagementAgents.portfolio] = 1
            /\ bundle[1].agent_signals = <<>>
            /\ "final_decision" \in DOMAIN bundle[1]

FailedInvocations == {a \in AgentNames : outcome[a].kind = "error"}

\* C7: with a snapshot every prompt can be built from, a failure of the
\* completion service in one strategy invocation (persona, crypto, risk
\* assessor or decision synthesizer) never makes analyze end in a fault.
C7_SingleFailureNeverFatal ==
    (/\ entry = "analyze"
     /\ market_data # <<>>
     /\ Formats(market_data[1].market_cap)
     /\ Formats(market_data[1].volume_24h)
     /\ Cardinality(FailedInvocations) <= 1)
    => or_pc # "raised"

ErrorResult(b) ==
    /\ DOMAIN b = {"error", "token", "chain"}
    /\ b.token = TokenId
    /\ b.chain = "solana"

NothingComputed ==
    /\ \A a \in AgentNames : calls[a] = 0 /\ outcome[a] = Pending
    /\ tasks = <<>>
    /\ all_signals = <<>>
    /\ risk_context = <<>>
    /\ risk_assessment = <<>>
    /\ final_decision = <<>>

\* C8 as claimed: without a price (field missing or null) analyze returns
\* the error result and computes nothing; with a price present the returned
\* result has no error field.
C8_PricePresentNoError ==
    (entry = "analyze" /\ market_data # <<>>) =>
        IF market_data[1].price.tag \in {"missing", "None"}
        THEN or_pc = "done" /\ ErrorResult(bundle[1]) /\ NothingComputed
        ELSE or_pc = "done" => "error" \notin DOMAIN bundle[1]

\* C8 (amended): when the snapshot's price is missing, null or 0, analyze
\* returns the error result carrying token and chain, and no strategy, risk
\* assessor or decision synthesizer is invoked and no sentiment is computed;
\* when a non-zero price is present the returned result has no error field.
C8_FalsyPriceShortCircuit ==
    (entry = "analyze" /\ market_data # <<>>) =>
        IF \/ market_data[1].price.tag \in {"missing", "None"}
           \/ market_data[1].price = Num(0)
        THEN or_pc = "done" /\ ErrorResult(bundle[1]) /\ NothingComputed
        ELSE /\ or_pc # "start"
             /\ or_pc = "done" => "error" \notin DOMAIN bundle[1]

\* analyze has returned the error result for a snapshot whose price is 0
C8_Witness ==
    /\ entry = "analyze"
    /\ or_pc = "done"
    /\ market_data # <<>>
    /\ market_data[1].price = Num(0)
    /\ "error" \in DOMAIN bundle[1]
    /\ NothingComputed

(***************************************************************************)
(* Properties of the aggregation functions                                 *)
(***************************************************************************)
RECURSIVE CountAction(_, _)
CountAction(sigs, a) ==
    IF sigs = <<>> THEN 0
    ELSE (IF sigs[1].action = a THEN 1 ELSE 0) + CountAction(Tail(sigs), a)

\* C9: with b bullish and r bearish signals the sentiment is very_bullish if
\* b > 2r, else bullish if b > r, else very_bearish if r > 2b, else bearish
\* if r > b, else neutral (3/1 very_bullish, 2/1 bullish, 1/1 neutral,
\* 1/3 very_bearish, empty neutral); dropping the neutral signals from the
\* list does not change it.
C9_SentimentClassification ==
    fn_pc = "output" =>
        LET b == CountAction(fn_signals, "bullish")
            r == CountAction(fn_signals, "bearish")
        IN  /\ fn_sentiment =
                 CASE b > 2 * r -> "very_bullish"
                   [] b <= 2 * r /\ b > r -> "bullish"
                   [] b <= r /\ r > 2 * b -> "very_bearish"
                   [] b <= r /\ r <= 2 * b /\ r > b -> "bearish"
                   [] OTHER -> "neutral"
            /\ (b = 3 /\ r = 1) => fn_sentiment = "very_bullish"
            /\ (b = 2 /\ r = 1) => fn_sentiment = "bullish"
            /\ (b = 1 /\ r = 1) => fn_sentiment = "neutral"
            /\ (b = 1 /\ r = 3) => fn_sentiment = "very_bearish"
            /\ fn_signals = <<>> => fn_sentiment = "neutral"
            /\ fn_sentiment =
                 CalculateSentiment(SelectSeq(fn_signals, LAMBDA s : s.action # "neutral"))

\* three bullish signals and one bearish signal were classified
C9_Witness ==
    /\ fn_pc = "output"
    /\ CountAction(fn_signals, "bullish") = 3
    /\ CountAction(fn_signals, "bearish") = 1
    /\ fn_sentiment = "very_bullish"

AllConfidencesZero == \A i \in DOMAIN fn_signals : fn_signals[i].confidence = 0

\* C10 as claimed: the average confidence is in [0,100] and is 0 exactly
\* when the signal set is empty.
C10_ZeroIffEmpty ==
    fn_pc = "output" =>
        /\ RGe(fn_confidence, R(0))
        /\ RLe(fn_confidence, R(100))
        /\ RIsZero(fn_confidence) <=> (fn_signals = <<>>)

\* C10 (amended): the average confidence is in [0,100]; it is 0 when the
\* set is empty and the mean of the confidences otherwise, so it is 0
\* exactly when every surviving confidence is 0.
C10_AverageConfidence ==
    fn_pc = "output" =>
        /\ RGe(fn_confidence, R(0))
        /\ RLe(fn_confidence, R(100))
        /\ fn_signals = <<>> => fn_confidence = R(0)
        /\ RMul(fn_confidence, R(Len(fn_signals))) = R(SumConfidence(fn_signals))
        /\ RIsZero(fn_confidence) <=> AllConfidencesZero

\* a non-empty list whose confidences are all 0 was averaged to 0
C10_Witness ==
    /\ fn_pc = "output"
    /\ Len(fn_signals) >= 2
    /\ AllConfidencesZero
    /\ fn_confidence = R(0)

(***************************************************************************)
(* Properties of the rosters                                               *)
(***************************************************************************)
Members(roster) == {roster[i] : i \in DOMAIN roster}

NoRepeats(roster) == Cardinality(Members(roster)) = Len(roster)

RosterSize(m) ==
    Len(PersonaAgents(m)) + Len(CryptoAgents(m)) + Cardinality(DOMAIN ManagementAgents)

\* C11: a TradingGraph of mode full holds 5 persona + 5 crypto (with the
\* pump specialist) + 2 management = 12 strategies, of mode fast 2 + 4
\* (without the pump specialist) + 2 = 8, of mode degen 2 + 3 (degen, pump
\* specialist, chain specialist) + 2 = 7; the rosters hold no strategy twice,
\* the risk assessor and the decision synthesizer are present in every mode,
\* and each gather of analyze dispatches exactly one task per roster member.
C11_RosterTable ==
    LET p == PersonaAgents(mode)
        c == CryptoAgents(mode)
    IN  /\ NoRepeats(p \o c)
        /\ ManagementAgents.risk = "RiskManager"
        /\ ManagementAgents.portfolio = "PortfolioManager"
        /\ DOMAIN ManagementAgents = {"risk", "portfolio"}
        /\ Members(p \o c) \cap {"RiskManager", "PortfolioManager"} = {}
        /\ mode = "full" =>
            /\ Len(p) = 5 /\ Len(c) = 5 /\ RosterSize(mode) = 12
            /\ "PumpTrader" \in Members(c)
        /\ mode = "fast" =>
            /\ Len(p) = 2 /\ Len(c) = 4 /\ RosterSize(mode) = 8
            /\ "PumpTrader" \notin Members(c)
        /\ mode = "degen" =>
            /\ Len(p) = 2 /\ Len(c) = 3 /\ RosterSize(mode) = 7
            /\ Members(c) = {"Degen", "PumpTrader", "SolanaSpecialist"}
        /\ (entry = "analyze" /\ or_pc = "gather" /\ stage = "personas")
              => Len(tasks) = Len(p)
        /\ (entry = "analyze" /\ or_pc = "gather" /\ stage = "crypto")
              => Len(tasks) = Len(c)

\* a graph of mode fast has dispatched its crypto roster: four tasks, the
\* pump specialist not among the strategies invoked
C11_Witness ==
    /\ mode = "fast"
    /\ entry = "analyze"
    /\ or_pc = "gather" /\ stage = "crypto"
    /\ Len(tasks) = 4
    /\ calls["PumpTrader"] = 0
    /\ calls["WhaleWatcher"] = 1

(***************************************************************************)
(* Properties of the equity curve and of the metrics                       *)
(***************************************************************************)
\* the equity of a bar as the claim states it: the balance alone when flat,
\* the balance plus size * (1 + unrealized return at the close) otherwise
MarkedToMarket(bal, pos, close) ==
    IF pos = <<>> THEN bal
    ELSE LET ret == IF pos[1].action = "buy"
                    THEN RDiv(R(close - pos[1].price), R(pos[1].price))
                    ELSE RDiv(R(pos[1].price - close), R(pos[1].price))
         IN  RAdd(bal, RMul(pos[1].size, RAdd(R(1), ret)))

\* the equity curve is the candle series so far, point by point
PointsFollowCandles ==
    /\ Len(equity_curve) <= Len(candles)
    /\ \A i \in 1..Len(equity_curve) :
        /\ equity_curve[i].timestamp = candles[i].timestamp
        /\ equity_curve[i].price = candles[i].close

\* C12: run_backtest records exactly one equity point per candle, in candle
\* order, with the candle's timestamp and close; the point is appended when
\* the bar's exit check and entry scan are done, and its equity is the
\* balance alone when no position is held then, and the balance plus
\* size * (1 + unrealized return at this bar's close) when one is; no other
\* step touches the curve, and the returned curve has one point per candle.
C12_EquityPointPerCandle ==
    /\ [](/\ PointsFollowCandles
          /\ bt_pc \in {"exit", "scan"} => Len(equity_curve) = idx - 1
          /\ bt_pc \in {"final", "done"} => Len(equity_curve) = Len(candles)
          /\ (bt_pc = "done" /\ candles # <<>>) => result[1].equity_curve = equity_curve)
    /\ [][IF bt_pc = "scan"
          THEN equity_curve' =
                 Append(equity_curve,
                        [timestamp |-> candles[idx].timestamp,
                         equity |-> MarkedToMarket(balance', position', candles[idx].close),
                         price |-> candles[idx].close])
          ELSE equity_curve' = equity_curve]_vars

\* a run has returned three equity points; at the second bar a position
\* opened earlier was held at a close other than its entry price, so that
\* point is neither the balance nor the initial balance
C12_Witness ==
    /\ bt_pc = "done"
    /\ Len(result[1].equity_curve) = 3
    /\ Len(opened) >= 1
    /\ opened[1].timestamp = candles[1].timestamp
    /\ candles[2].close # candles[1].close
    /\ ~StopLossHit(UnrealizedPnlPct(opened[1], candles[2].close))
    /\ ~TakeProfitHit(UnrealizedPnlPct(opened[1], candles[2].close))
    /\ result[1].equity_curve[2].equity # R(self.initial_balance)

\* C13: a backtest with an empty signal timeline never creates a Trade,
\* whatever the candles: no position is ever held, the balance stays at
\* initial_balance from its initialisation on, every equity point equals
\* initial_balance, and the result has total_trades = 0, no trades,
\* final_balance = initial_balance, total_pnl = 0 and win_rate = 0.
C13_NoSignalsNoTrades ==
    signals = <<>> =>
        /\ opened = <<>> /\ trades = <<>> /\ position = <<>>
        /\ bt_pc # "raised"
        /\ (bt_pc \in {"exit", "scan", "final"} \/ (bt_pc = "done" /\ candles # <<>>))
              => balance = R(self.initial_balance)
        /\ \A i \in 1..Len(equity_curve) :
              equity_curve[i].equity = R(self.initial_balance)
        /\ bt_pc = "done" =>
              /\ result[1].total_trades = 0
              /\ result[1].trades = <<>>
              /\ result[1].winning_trades = 0 /\ result[1].losing_trades = 0
              /\ result[1].final_balance = R(self.initial_balance)
              /\ result[1].total_pnl = R(0)
              /\ result[1].total_pnl_pct = R(0)
              /\ result[1].win_rate = R(0)
              /\ result[1].max_drawdown = R(0)

\* a run without signals has returned over three candles whose closes fall
\* by the stop-loss distance and rise by the take-profit distance
C13_Witness ==
    /\ signals = <<>>
    /\ bt_pc = "done"
    /\ Len(candles) = 3
    /\ candles[1].close = 100 /\ candles[2].close = 95 /\ candles[3].close = 115
    /\ Len(result[1].equity_curve) = 3

\* C14: when fetch_historical_data yields no candles (request failed, status
\* other than 200, or no rows), run_backtest returns at once, without a
\* fault, a result with total_trades = 0, final_balance = initial_balance,
\* total_pnl = 0, no trades and no equity points; the signal timeline is not
\* examined, so no Trade is created whatever signals it holds.
C14_NoCandlesDegenerateResult ==
    (bt_pc # "start" /\ candles = <<>>) =>
        /\ bt_pc = "done"
        /\ result # <<>>
        /\ result[1].total_trades = 0
        /\ result[1].winning_trades = 0 /\ result[1].losing_trades = 0
        /\ result[1].initial_balance = R(self.initial_balance)
        /\ result[1].final_balance = R(self.initial_balance)
        /\ result[1].total_pnl = R(0)
        /\ result[1].total_pnl_pct = R(0)
        /\ result[1].win_rate = R(0)
        /\ result[1].max_drawdown = R(0)
        /\ result[1].trades = <<>>
        /\ result[1].equity_curve = <<>>
        /\ opened = <<>> /\ trades = <<>> /\ position = <<>> /\ equity_curve = <<>>

\* the degenerate result was returned although the timeline holds two
\* signals that would open a position
C14_Witness ==
    /\ bt_pc = "done"
    /\ candles = <<>>
    /\ Len(signals) = 2
    /\ \A i \in 1..Len(signals) : Tradeable(signals[i]) /\ signals[i].timestamp # <<>>
    /\ result[1].total_trades = 0

\* C15 as claimed: win_rate equals winning_trades / total_trades when
\* total_trades > 0 and 0 when total_trades = 0.
C15_WinRateIsRatio ==
    bt_pc = "done" =>
        LET r == result[1]
        IN  r.win_rate = IF r.total_trades > 0
                         THEN RDiv(R(r.winning_trades), R(r.total_trades))
                         ELSE R(0)

\* C15 (amended): win_rate is the percentage of winning trades,
\* winning_trades / total_trades * 100, when total_trades > 0 and 0 when
\* total_trades = 0 (the division is guarded); winning_trades counts the
\* trades with pnl > 0; the value lies in [0, 100].
C15_WinRatePercentage ==
    bt_pc = "done" =>
        LET r == result[1]
        IN  /\ r.total_trades = Len(r.trades)
            /\ r.winning_trades =
                  Cardinality({i \in 1..Len(r.trades) : RGt(r.trades[i].pnl, R(0))})
            /\ r.total_trades > 0 =>
                  RMul(r.win_rate, R(r.total_trades)) = R(100 * r.winning_trades)
            /\ r.total_trades = 0 => r.win_rate = R(0)
            /\ RGe(r.win_rate, R(0)) /\ RLe(r.win_rate, R(100))

\* a run has returned two trades, one of them a winner: win_rate is 50
C15_Witness ==
    /\ bt_pc = "done"
    /\ result[1].total_trades = 2
    /\ result[1].winning_trades = 1
    /\ result[1].win_rate = R(50)

\* the greatest equity among the first i points of the curve
RunningPeak(curve, i) ==
    CHOOSE e \in {curve[k].equity : k \in 1..i} :
        \A k \in 1..i : RLe(curve[k].equity, e)

\* (peak - equity) / peak * 100 at point i
DrawdownAt(curve, i) ==
    RMul(RDiv(RSub(RunningPeak(curve, i), curve[i].equity), RunningPeak(curve, i)),
         R(100))

\* C16: max_drawdown of a returned result is the greatest, over the points
\* of its equity curve, of (peak - equity) / peak * 100 with peak the
\* greatest equity among the points up to and including that one; it is 0
\* exactly when no point lies below the running peak, and never negative.
C16_MaxDrawdown ==
    bt_pc = "done" =>
        LET r == result[1]
            c == r.equity_curve
        IN  /\ RGe(r.max_drawdown, R(0))
            /\ \A i \in 1..Len(c) : RLe(DrawdownAt(c, i), r.max_drawdown)
            /\ c # <<>> => \E i \in 1..Len(c) : r.max_drawdown = DrawdownAt(c, i)
            /\ c = <<>> => r.max_drawdown = R(0)
            /\ RIsZero(r.max_drawdown)
                  <=> \A i \in 1..Len(c) : c[i].equity = RunningPeak(c, i)

\* a returned curve that rose above the initial balance and fell afterwards:
\* the drawdown is measured from the peak reached, not from the start
C16_Witness ==
    /\ bt_pc = "done"
    /\ Len(result[1].equity_curve) = 3
    /\ RGt(result[1].equity_curve[2].equity, R(self.initial_balance))
    /\ RLt(result[1].equity_curve[3].equity, result[1].equity_curve[2].equity)
    /\ result[1].max_drawdown = DrawdownAt(result[1].equity_curve, 3)
    /\ RGt(result[1].max_drawdown, R(0))

(***************************************************************************)
(* Properties of the stages of analyze and quick_signal                    *)
(***************************************************************************)
\* C17: analyze dispatches the persona and the crypto strategies together:
\* while strategy tasks are being awaited every persona and every crypto
\* strategy of the mode has been invoked (so a crypto invocation may run
\* while a persona invocation is still pending), and one join collects them.
C17_OneDispatch ==
    (entry = "analyze" /\ or_pc = "gather") =>
        /\ \A a \in Members(PersonaAgents(mode) \o CryptoAgents(mode)) : calls[a] = 1
        /\ Len(tasks) = Len(PersonaAgents(mode)) + Len(CryptoAgents(mode))

StrategyRoster == PersonaAgents(mode) \o CryptoAgents(mode)

\* C18: a join of analyze returns only when every task it dispatched has
\* finished or failed (none is left pending or cancelled); the risk assessor
\* is invoked only when every persona and crypto strategy of the mode has
\* been invoked and has finished or failed; the decision synthesizer is
\* invoked only when the risk assessor has returned its assessment, and the
\* call receives exactly the persona survivors followed by the crypto
\* survivors, and that assessment.
C18_StageOrdering ==
    /\ [](entry = "analyze" =>
            /\ calls[ManagementAgents.risk] > 0 =>
                \A a \in Members(StrategyRoster) :
                    calls[a] = 1 /\ outcome[a].kind \in {"signal", "error"}
            /\ calls[ManagementAgents.portfolio] > 0 =>
                /\ calls[ManagementAgents.risk] = 1
                /\ outcome[ManagementAgents.risk].kind = "signal"
                /\ risk_assessment = <<outcome[ManagementAgents.risk]>>
                /\ synthesize_args # <<>>
                /\ synthesize_args[1].risk_assessment = outcome[ManagementAgents.risk]
                /\ synthesize_args[1].signals = persona_signals \o crypto_signals
                /\ SurvivorsInRosterOrder(persona_signals, PersonaAgents(mode))
                /\ SurvivorsInRosterOrder(crypto_signals, CryptoAgents(mode))
            /\ calls[ManagementAgents.portfolio] = 0 => synthesize_args = <<>>)
    /\ [][(/\ entry = "analyze"
           /\ or_pc = "gather"
           /\ (or_pc' # "gather" \/ stage' # stage))
          => /\ \A i \in 1..Len(tasks) : tasks[i].kind \in {"signal", "error"}
             /\ \A i \in 1..Len(Roster) : outcome[Roster[i]] = tasks[i]]_vars

\* the decision synthesizer of a full graph has been called after failures
\* in both rosters: it was handed the eight surviving signals
C18_Witness ==
    /\ entry = "analyze" /\ mode = "full"
    /\ or_pc = "portfolio"
    /\ outcome["MichaelBurry"].kind = "error"
    /\ outcome["PumpTrader"].kind = "error"
    /\ Len(synthesize_args[1].signals) = 8
    /\ synthesize_args[1].signals[1].agent_name = "WarrenBuffett"
    /\ synthesize_args[1].risk_assessment.agent_name = "RiskManager"

QuickThree == <<"Degen", "OnChainAnalyst", "RiskManager">>

QuickResultFields == {"token", "price", "sentiment", "confidence", "signals", "quick_take"}

\* what quick_signal does once it runs its strategies, whatever the mode:
\* the crypto-native strategy, the on-chain specialist and the risk assessor
\* are dispatched together and no other strategy is invoked; a failing one is
\* dropped without a fault; the result carries the sentiment and the average
\* confidence of the survivors and no final_decision
QuickPipeline ==
    /\ or_pc \in {"gather", "done"}
    /\ \A a \in AgentNames : calls[a] = IF a \in Members(QuickThree) THEN 1 ELSE 0
    /\ or_pc = "gather" => Len(tasks) = 3
    /\ final_decision = <<>> /\ synthesize_args = <<>>
    /\ or_pc = "done" =>
        /\ DOMAIN bundle[1] = QuickResultFields
        /\ SurvivorsInRosterOrder(all_signals, QuickThree)
        /\ bundle[1].signals = SignalsToDicts(all_signals)
        /\ bundle[1].sentiment = CalculateSentiment(all_signals)
        /\ bundle[1].confidence = AvgConfidence(all_signals)

\* C19 as claimed: whenever the snapshot has a price, quick_signal runs its
\* three strategies and returns their aggregate.
C19_QuickSignalPricePresent ==
    (/\ entry = "quick_signal"
     /\ market_data # <<>>
     /\ market_data[1].price.tag = "num")
    => QuickPipeline

\* C19 (amended): whenever the snapshot has a non-zero price, quick_signal
\* runs exactly three strategies (the crypto-native one, the on-chain
\* specialist, the risk assessor), dispatched together and failure-isolated,
\* returns the aggregate sentiment and the average confidence of the
\* surviving signals, and never invokes the decision synthesizer, in every
\* mode of the graph; with a price that is missing, null or 0 it returns the
\* error result and invokes nothing.
C19_QuickSignal ==
    entry = "quick_signal" =>
        /\ or_pc # "raised"
        /\ calls[ManagementAgents.portfolio] = 0
        /\ market_data # <<>> =>
            IF market_data[1].price.tag = "num" /\ market_data[1].price.val # 0
            THEN QuickPipeline
            ELSE /\ or_pc = "done"
                 /\ DOMAIN bundle[1] = {"error", "token"}
                 /\ NothingComputed

\* quick_signal has returned on a graph of mode degen, whose own roster has
\* no on-chain specialist: the risk assessor failed on a snapshot without
\* market_cap and the two other signals were aggregated
C19_Witness ==
    /\ entry = "quick_signal" /\ mode = "degen"
    /\ or_pc = "done"
    /\ calls["OnChainAnalyst"] = 1
    /\ outcome["RiskManager"].kind = "error"
    /\ Len(bundle[1].signals) = 2
    /\ bundle[1].sentiment = "neutral"
    /\ bundle[1].confidence = R(60)

ResultFields ==
    {"token", "initial_balance", "final_balance", "total_pnl", "total_pnl_pct",
     "total_trades", "winning_trades", "losing_trades", "win_rate",
     "max_drawdown", "trades", "equity_curve"}

\* C21: over candles whose closes are non-negative (0 included) and any
\* signal timeline, run_backtest never ends in an arithmetic fault, and when
\* it has ended it has returned a well-formed BacktestResult.
C21_NeverFaults ==
    /\ bt_pc # "raised"
    /\ bt_pc = "done" =>
        /\ result # <<>>
        /\ DOMAIN result[1] = ResultFields
        /\ result[1].total_trades = Len(result[1].trades)

\* C22: at a bar reached with a long position (entry price > 0) and
\* ret = (close - entry) / entry * 100, the exit check closes the position
\* if and only if ret <= -stop_loss_pct or ret >= take_profit_pct; it then
\* appends exactly one closed trade (also when both conditions hold), closed
\* at the bar's close and timestamp with pnl_pct = ret, and credits the
\* balance with size + pnl once; when neither holds, position, trades and
\* balance are unchanged.
C22_ExitRule ==
    [][(/\ bt_pc = "exit"
        /\ position # <<>>
        /\ position[1].action = "buy"
        /\ position[1].price > 0)
       => LET pos == position[1]
              close == candles[idx].close
              stop == (close - pos.price) * 100 <= (0 - self.stop_loss_pct) * pos.price
              take == (close - pos.price) * 100 >= self.take_profit_pct * pos.price
              ret == RDiv(R((close - pos.price) * 100), R(pos.price))
          IN  /\ (position' = <<>>) <=> (stop \/ take)
              /\ (stop \/ take) =>
                    /\ Len(trades') = Len(trades) + 1
                    /\ SubSeq(trades', 1, Len(trades)) = trades
                    /\ LET t == trades'[Len(trades')]
                       IN  /\ EntryFields(t) = EntryFields(pos)
                           /\ t.closed
                           /\ t.close_price = <<close>>
                           /\ t.close_timestamp = <<candles[idx].timestamp>>
                           /\ t.pnl_pct = ret
                           /\ t.pnl = RDiv(RMul(t.size, ret), R(100))
                           /\ balance' = RAdd(balance, RAdd(t.size, t.pnl))
              /\ ~(stop \/ take) =>
                    /\ position' = position
                    /\ trades' = trades
                    /\ balance' = balance]_vars

\* on an engine whose two thresholds are 0, the exit check has just closed,
\* once, a position whose return is 0: both conditions held
C22_Witness ==
    /\ bt_pc = "scan"
    /\ self.stop_loss_pct = 0 /\ self.take_profit_pct = 0
    /\ position = <<>>
    /\ Len(trades) = 1 /\ Len(opened) = 1
    /\ trades[1].close_timestamp = <<candles[idx].timestamp>>
    /\ trades[1].pnl_pct = R(0)
    /\ balance = R(self.initial_balance)

CloseFieldsUnset(t) ==
    /\ ~t.closed
    /\ t.close_price = <<>> /\ t.close_timestamp = <<>>
    /\ t.pnl = R(0) /\ t.pnl_pct = R(0)

\* C23: a Trade keeps the token, action, entry price, size, entry timestamp
\* and signal_confidence it was created with; while it is the open position
\* its closing fields are still unset; they are written in the one step that
\* closes it and appends it to the realized list; and no later step changes
\* or removes a Trade of the realized list.
C23_TradeLifecycle ==
    /\ [](/\ PositionOpen =>
              /\ position[1] = opened[Len(opened)]
              /\ CloseFieldsUnset(position[1])
          /\ Len(trades) <= Len(opened)
          /\ \A i \in 1..Len(trades) :
              /\ EntryFields(trades[i]) = EntryFields(opened[i])
              /\ CloseFieldsUnset(opened[i])
              /\ trades[i].closed
              /\ trades[i].close_price # <<>>
              /\ trades[i].close_timestamp # <<>>)
    /\ [][/\ Len(trades') >= Len(trades)
          /\ SubSeq(trades', 1, Len(trades)) = trades
          /\ Len(trades') <= Len(trades) + 1
          /\ Len(trades') = Len(trades) + 1 =>
                /\ PositionOpen
                /\ EntryFields(trades'[Len(trades')]) = EntryFields(position[1])
          /\ SubSeq(opened', 1, Len(opened)) = opened]_vars

\* a run has returned two trades; the first was closed at the second bar, at
\* a price other than its entry price, and a third bar was processed after
C23_Witness ==
    /\ bt_pc = "done"
    /\ Len(candles) = 3
    /\ Len(result[1].trades) = 2
    /\ result[1].trades[1].close_timestamp = <<candles[2].timestamp>>
    /\ result[1].trades[1].close_price # <<result[1].trades[1].price>>
    /\ result[1].trades[2].close_timestamp = <<candles[3].timestamp>>

RECURSIVE SumPnl(_)
SumPnl(ts) == IF ts = <<>> THEN R(0) ELSE RAdd(ts[1].pnl, SumPnl(Tail(ts)))

\* the size held in the open position (0 when flat or force-closed)
HeldSize == IF PositionOpen THEN position[1].size ELSE R(0)

\* C24: during a run with candles the balance plus the size of the open
\* position equals initial_balance plus the pnl of the trades realized so
\* far, so opening a position leaves balance + size unchanged; in the
\* result, final_balance = initial_balance + the sum of pnl over
\* result.trades, and total_pnl is that sum.
C24_BalanceConservation ==
    /\ [](/\ bt_pc \in {"exit", "scan", "final"} =>
              RAdd(balance, HeldSize) = RAdd(R(self.initial_balance), SumPnl(trades))
          /\ (bt_pc = "done" /\ candles # <<>>) =>
              /\ result[1].final_balance
                    = RAdd(result[1].initial_balance, SumPnl(result[1].trades))
              /\ result[1].total_pnl = SumPnl(result[1].trades)
              /\ result[1].initial_balance = R(self.initial_balance))
    /\ [][(opened' # opened) =>
            /\ position = <<>>
            /\ RAdd(balance', position'[1].size) = balance]_vars

\* a run has returned a winning and a losing trade and a final balance
\* other than the initial one
C24_Witness ==
    /\ bt_pc = "done"
    /\ Len(result[1].trades) = 2
    /\ RGt(result[1].trades[1].pnl, R(0))
    /\ RLt(result[1].trades[2].pnl, R(0))
    /\ result[1].final_balance # result[1].initial_balance

LastPoint(curve) == curve[Len(curve)]

\* C25: for every returned run over at least one candle, final_balance is
\* the equity of the last equity-curve point: when the run ends flat, when
\* the position held is force-closed at the last candle, and when a position
\* was closed and another opened at the last candle.
C25_FinalBalanceIsLastEquity ==
    (bt_pc = "done" /\ candles # <<>>) =>
        /\ Len(result[1].equity_curve) = Len(candles)
        /\ result[1].final_balance = LastPoint(result[1].equity_curve).equity
        /\ LastPoint(result[1].equity_curve).timestamp = candles[Len(candles)].timestamp

\* a run has returned whose last candle closed one position by take-profit
\* and opened another, force-closed at the same candle
C25_Witness ==
    /\ bt_pc = "done"
    /\ Len(result[1].trades) = 2
    /\ result[1].trades[1].close_timestamp = <<candles[Len(candles)].timestamp>>
    /\ result[1].trades[2].timestamp = candles[Len(candles)].timestamp
    /\ RGt(result[1].trades[1].pnl, R(0))
    /\ result[1].final_balance = LastPoint(result[1].equity_curve).equity
    /\ result[1].final_balance # result[1].initial_balance

\* the last realized trade was closed by the exit check of the current bar
ExitedAtThisBar ==
    /\ trades # <<>>
    /\ trades[Len(trades)].close_timestamp = <<candles[idx].timestamp>>

\* C26: the exit check of a bar precedes its entry scan, so stop-loss and
\* take-profit close a position only at a bar later than the one that opened
\* it; a bar whose exit check closed a position opens a new one, at the same
\* timestamp and price, when a qualifying signal is in range; consecutive
\* trades never overlap: the later one is created at or after the earlier
\* one's close (at it in the re-entry case).
C26_ExitBeforeEntry ==
    /\ [](/\ \A i \in 1..Len(trades) :
              /\ trades[i].close_timestamp[1] >= trades[i].timestamp
              /\ i < Len(trades) =>
                    trades[i + 1].timestamp >= trades[i].close_timestamp[1]
          /\ (PositionOpen /\ trades # <<>>) =>
                position[1].timestamp >= trades[Len(trades)].close_timestamp[1])
    /\ [][(bt_pc = "exit" /\ position # <<>> /\ position' = <<>>)
            => candles[idx].timestamp > position[1].timestamp]_vars
    /\ [][(/\ bt_pc = "scan"
           /\ ExitedAtThisBar
           /\ \E i \in 1..Len(signals) : C4_Qualifies(signals[i], candles[idx]))
          => /\ position' # <<>>
             /\ position'[1].timestamp = trades[Len(trades)].close_timestamp[1]
             /\ <<position'[1].price>> = trades[Len(trades)].close_price]_vars

\* a run has returned two trades, the second opened at the bar and price at
\* which the first was closed by take-profit
C26_Witness ==
    /\ bt_pc = "done"
    /\ Len(result[1].trades) = 2
    /\ <<result[1].trades[2].timestamp>> = result[1].trades[1].close_timestamp
    /\ <<result[1].trades[2].price>> = result[1].trades[1].close_price
    /\ result[1].trades[1].pnl_pct = R(self.take_profit_pct)
    /\ result[1].trades[2].close_timestamp[1] > result[1].trades[2].timestamp

\* the bars of the run at which some signal of the timeline qualifies
BarsInRange ==
    {k \in 1..Len(candles) :
        \E i \in 1..Len(signals) : C4_Qualifies(signals[i], candles[k])}

\* C27: the signal timeline is never modified, and a signal that has
\* already opened a position still opens one at every later flat bar less
\* than 3600 seconds from its timestamp, before or after it: with a single
\* qualifying signal in the timeline, every flat bar in its range opens a
\* position, and the number of positions opened is bounded only by the
\* number of bars in range.
C27_SignalsNeverConsumed ==
    /\ [][signals' = signals]_vars
    /\ [](Len(opened) <= Cardinality(BarsInRange))
    /\ [][(/\ bt_pc = "scan"
           /\ position = <<>>
           /\ Len(signals) = 1
           /\ C4_Qualifies(signals[1], candles[idx])
           /\ opened # <<>>)
          => /\ position' # <<>>
             /\ opened' = Append(opened, position'[1])
             /\ position'[1].timestamp = candles[idx].timestamp
             /\ position'[1].signal_confidence = signals[1].confidence[1]
             /\ position'[1].signal_confidence = opened[Len(opened)].signal_confidence]_vars

\* a timeline of one signal has opened two positions, the first at a bar
\* before the signal's timestamp, the second at the bar of its timestamp
C27_Witness ==
    /\ Len(signals) = 1
    /\ Len(opened) = 2
    /\ opened[1].timestamp < signals[1].timestamp[1]
    /\ opened[2].timestamp = signals[1].timestamp[1]
    /\ Cardinality(BarsInRange) = 2

\* C28: on an engine with 0 <= position_size_pct <= 100 and a non-negative
\* initial balance, over candles with positive closes, the cash balance is
\* never negative (it is 0 while an all-in position is held) and every
\* equity-curve point is non-negative.
C28_NonNegativeBalance ==
    (/\ self.position_size_pct >= 0 /\ self.position_size_pct <= 100
     /\ self.initial_balance >= 0
     /\ \A k \in 1..Len(candles) : candles[k].close > 0)
    => /\ RGe(balance, R(0))
       /\ \A k \in 1..Len(equity_curve) : RGe(equity_curve[k].equity, R(0))
       /\ position # <<>> => RGe(position[1].size, R(0))
       /\ bt_pc = "done" => RGe(result[1].final_balance, R(0))

\* an all-in engine holds a position with no cash left, after a losing trade
C28_Witness ==
    /\ self.position_size_pct = 100
    /\ PositionOpen
    /\ balance = R(0)
    /\ RGt(position[1].size, R(0))
    /\ trades # <<>>
    /\ RLt(trades[1].pnl, R(0))

\* the caller's mapping, or the empty mapping for None
CallerEntries == IF context = <<>> THEN <<>> ELSE context[1]

\* the mapping handed to the risk assessor: the caller's entries, with the
\* two computed entries written over entries of the same names
RiskAssessorMapping ==
    LET rc == risk_context[1]
    IN  /\ DOMAIN rc = DOMAIN CallerEntries \cup {"aggregate_sentiment", "avg_confidence"}
        /\ rc.aggregate_sentiment = CalculateSentiment(all_signals)
        /\ rc.avg_confidence = AvgConfidence(all_signals)
        /\ \A k \in DOMAIN CallerEntries \ {"aggregate_sentiment", "avg_confidence"} :
              rc[k] = CallerEntries[k]

\* C29: analyze never changes the caller's context; the risk assessor gets a
\* new mapping: the caller's entries plus aggregate_sentiment and
\* avg_confidence, the computed values replacing caller-supplied entries of
\* those names; both strategy gathers and the decision synthesizer get the
\* caller's context as it was passed in.
C29_ContextNotMutated ==
    /\ [][context' = context]_vars
    /\ [](entry = "analyze" =>
            /\ (risk_context # <<>> => RiskAssessorMapping)
            /\ (\A i \in DOMAIN strategy_context : strategy_context[i] = context)
            /\ (stage = "crypto" => Len(strategy_context) = 2)
            /\ (synthesize_args # <<>> => synthesize_args[1].context = context))

\* the caller passed a stale aggregate_sentiment; the risk assessor saw the
\* computed one, the gathers and the synthesizer the caller's own mapping
C29_Witness ==
    /\ entry = "analyze" /\ or_pc = "done"
    /\ context # <<>>
    /\ "aggregate_sentiment" \in DOMAIN context[1]
    /\ risk_context # <<>>
    /\ risk_context[1].aggregate_sentiment # context[1].aggregate_sentiment
    /\ risk_context[1].note = context[1].note
    /\ "avg_confidence" \notin DOMAIN context[1]
    /\ Len(strategy_context) = 2
    /\ synthesize_args # <<>>
    /\ synthesize_args[1].context = context

\* the price is falsy in Python: field missing, None or 0
FalsyPrice(v) == v.tag = "missing" \/ v.tag = "None" \/ (v.tag = "num" /\ v.val = 0)

\* C30: in analyze and in quick_signal alike the "no data" test is falsiness
\* of the price: with a price that is missing, null or 0 the call returns
\* the error result and invokes no strategy; with any other price the first
\* roster is dispatched and the returned result is no error result.
C30_NoDataIsFalsyPrice ==
    market_data # <<>> =>
        IF FalsyPrice(market_data[1].price)
        THEN /\ or_pc = "done"
             /\ bundle # <<>> /\ "error" \in DOMAIN bundle[1]
             /\ stage = "none"
             /\ \A a \in AgentNames : calls[a] = 0 /\ outcome[a] = Pending
        ELSE /\ or_pc # "start"
             /\ stage = (IF entry = "analyze" THEN "personas" ELSE "quick")
                  \/ (entry = "analyze" /\ stage = "crypto")
             /\ \A i \in DOMAIN QuickAgents :
                  entry = "quick_signal" => calls[QuickAgents[i]] = 1
             /\ \A i \in DOMAIN PersonaAgents(mode) :
                  entry = "analyze" => calls[PersonaAgents(mode)[i]] = 1
             /\ or_pc = "done" => "error" \notin DOMAIN bundle[1]

\* quick_signal has returned "No data" for a snapshot whose price field is
\* present but null, and no strategy was invoked
C30_Witness ==
    /\ entry = "quick_signal"
    /\ or_pc = "done"
    /\ market_data # <<>>
    /\ market_data[1].price = Null
    /\ bundle[1].error = "No data"
    /\ \A a \in AgentNames : calls[a] = 0

====
